---- MODULE Spec2Model ----
(***************************************************************************)
(* A model of the four views of the jobsabroad front end:                  *)
(*   - the application wizard   (modules/apply/MultiStepForm.tsx)          *)
(*   - the contact form         (modules/contact/ContactPage.tsx)          *)
(*   - the sites directory      (modules/sites/SitesPage.tsx)              *)
(*   - the dashboard            (unnamed/part_000)                         *)
(* Each view is a React component: its useState cells are the variables,   *)
(* each event handler, effect and promise continuation is one action.  A   *)
(* handler that awaits a request is split at the await: the part before it *)
(* issues the request, the part after it consumes the response.            *)
(* The views share no state, so each has a specification of its own in     *)
(* which the other views stay in their initial state.                      *)
(* Purely visual state (showPassword, copiedUrl) is left out.              *)
(***************************************************************************)
EXTENDS Integers, Sequences, FiniteSets, TLC

VARIABLES
    \* ---- application wizard ----
    data,             \* ApplicationData, useState(initialData)
    step,             \* 1 or 2
    isLoading,
    error,            \* the wizard's banner text, or None
    closureData,      \* the `data` captured by the running onSubmit, or NoClosure
    registerRequest,  \* the registerUser call in flight, or NoRequest
    registerInFlight, \* how many registerUser calls are in flight
    localStorage,     \* key -> value (None when the key is absent)
    authToken,        \* AuthContext token (setToken)
    authUser,         \* AuthContext user (setUser), or Undefined
    navigation,       \* the navigate() call made by the wizard, or NoNavigation
    \* ---- contact form ----
    formData,         \* name, email, subject, message
    contactLoading,   \* ContactPage's loading
    success,          \* the success banner is shown
    contactError,     \* ContactPage's error: the error banner's text, or None
    contactRequest,   \* the POST /api/contacts/ in flight, or NoRequest
    contactInFlight,  \* how many POST /api/contacts/ are in flight
    timers,           \* seconds left on each pending setTimeout(..., 5000)
    shownFor,         \* seconds since setSuccess(true), while the banner is shown
    \* ---- dashboard ----
    country,          \* the user's country ('' when none)
    dashSites,        \* Dashboard's sites: the curated set
    allSites,
    dashPopular,      \* Dashboard's popularCountries
    showAllCountries,
    dashLoading,      \* Dashboard's loading
    mountEffect,      \* where the mount effect stands
    toggleHandler,    \* where handleViewAllCountries stands
    dashLocation,     \* the location the dashboard left the router at
    backendDashboard, \* what the dashboard endpoint holds for this user
    \* ---- sites directory ----
    selectedCountry,  \* 'all' or a country name
    sites,            \* the loaded set
    popularCountries,
    sitesLoading,     \* SitesPage's loading
    allCountries,     \* the countries the selector offers
    searchQuery,
    searchParams,     \* the raw text of the URL's country parameter, or absent
    sitesMounted,     \* the effects of the first render have run
    jobSitesRequests, \* fetchJobSites calls in flight: target -> how many
    popularRequest,   \* fetchPopularCountries is in flight
    \* ---- the application ----
    route,            \* the route whose view is mounted
    imageName,      \* the argument of getCountryImage / hasCountryImage
    imageCall,        \* what the two functions returned for it, once called
    requestsDue       \* requests that the mounts and user actions so far account
                      \* for and that have not been issued (yet)

wizardVars == <<data, step, isLoading, error, closureData, registerRequest,
                registerInFlight,
                localStorage, authToken, authUser, navigation>>

contactVars == <<formData, contactLoading, success, contactError,
                 contactRequest, contactInFlight, timers, shownFor>>

dashVars == <<country, dashSites, allSites, dashPopular, showAllCountries,
              dashLoading, mountEffect, toggleHandler, dashLocation,
              backendDashboard>>

sitesVars == <<selectedCountry, sites, popularCountries, sitesLoading,
               allCountries, searchQuery, searchParams, sitesMounted,
               jobSitesRequests, popularRequest>>

imageVars == <<imageName, imageCall>>

vars == <<wizardVars, contactVars, dashVars, sitesVars, route, requestsDue,
          imageVars>>

\* What the actions of one view leave alone: the state of the other views.
outsideWizard == <<contactVars, dashVars, sitesVars, route, imageVars>>
outsideContact == <<wizardVars, dashVars, sitesVars, route, imageVars>>
outsideDashboard == <<wizardVars, contactVars, sitesVars, route, imageVars>>
outsideSites == <<wizardVars, contactVars, dashVars, route, imageVars>>
outsideImages == <<wizardVars, contactVars, dashVars, sitesVars, route,
                   requestsDue>>

\* The accounting of requests: a mount or a user action accounts for the
\* requests its handler may issue, and each call that is made is taken off.
Accounts(due, n) == due + n
Issues(due, n) == due - n

\* JavaScript undefined / null.
None == "undefined"

\* JavaScript truthiness of a string-or-undefined value.
Truthy(v) == v # None /\ v # ""

\* a || b
Or(a, b) == IF Truthy(a) THEN a ELSE b

(***************************************************************************)
(*                         THE APPLICATION WIZARD                          *)
(***************************************************************************)

\* Bounds on what the user picks at step 2.
MaxCountries == 2
MaxJobs == 2

total == 2
MinPasswordLength == 8

Prefix(s, n) == SubSeq(s, 1, IF Len(s) < n THEN Len(s) ELSE n)
Range(s) == {s[i] : i \in 1..Len(s)}

\* The countries of the country RadioGroup, in display order.
countryOptions ==
    <<"Poland", "Germany", "Netherlands", "Spain", "Italy", "Luxembourg">>

jobsByCountry ==
    [c \in Range(countryOptions) |->
        CASE c = "Poland" ->
                <<"Warehouse Worker", "Factory Line Operator",
                  "Agricultural Laborer (Farm Worker)", "Construction Helper",
                  "Cleaner", "Kitchen Assistant">>
          [] c = "Germany" ->
                <<"Logistics/Warehouse Assistant", "Construction Laborer",
                  "Caregiver/Support Worker", "Cleaning Staff",
                  "Food Processing Line Worker">>
          [] c = "Netherlands" ->
                <<"Greenhouse Worker (Horticulture)",
                  "Warehouse/Logistics Assistant", "Factory Line Operator">>
          [] c = "Spain" ->
                <<"Seasonal Agricultural Worker (Fruit Picker)",
                  "Hotel Housekeeping", "Industrial Cleaner", "Delivery Worker">>
          [] c = "Italy" ->
                <<"Seasonal Farm Worker (Agriculture)",
                  "Hospitality (Kitchen Assistant, Housekeeping)">>
          [] c = "Luxembourg" ->
                <<"Cleaning Staff", "Construction Laborer",
                  "Warehouse/Factory Worker", "Kitchen Helper">>]

\* The radio items the user clicks in the explored runs.
CountryChoices == Range(Prefix(countryOptions, MaxCountries))
JobChoices(c) == Range(Prefix(jobsByCountry[c], MaxJobs)) \cup {"Other"}

\* What the user types into a text input, the password input, the month input.
TextInputs == {"", "a"}
PasswordInputs == {"", "1234567", "12345678"}
MonthInputs == {"", "2026-01"}

Step1TextFields == {"first_name", "last_name", "username", "email",
                    "phone_number", "age"}

initialData ==
    [first_name |-> "", last_name |-> "", username |-> "", email |-> "",
     phone_number |-> "", password |-> "", age |-> "", country |-> "",
     desiredJob |-> "", desiredStartDate |-> ""]

NoNavigation == [path |-> None]
NoClosure == [running |-> FALSE]
Closure(d) == [running |-> TRUE, data |-> d]
NoRequest == [pending |-> FALSE]
Request(body) == [pending |-> TRUE, body |-> body]

\* An optional array or object of a response: absent, or present with its content.
Undefined == [kind |-> "undefined"]
Array(items) == [kind |-> "array", items |-> items]
\* a?.[0]
First(a) == IF a.kind = "array" /\ Len(a.items) > 0 THEN a.items[1] ELSE None

EmptyStorage == [auth_access_token |-> None, auth_refresh_token |-> None]
\* Local storage outlives the page: it may hold the tokens of an earlier session.
StoredBefore == [auth_access_token |-> "old-access", auth_refresh_token |-> "old-refresh"]

\* The wizard is mounted until it navigates away.
WizardMounted == navigation.path = None

WizardIdle ==
    /\ data = initialData
    /\ step = 1
    /\ isLoading = FALSE
    /\ error = None
    /\ closureData = NoClosure
    /\ registerRequest = NoRequest
    /\ registerInFlight = 0
    /\ localStorage = EmptyStorage
    /\ authToken = None
    /\ authUser = Undefined
    /\ navigation = NoNavigation

\* The user objects a registration response may carry.
UserObjects ==
    {[kind |-> "object", id |-> "7", name |-> "Abebe B", first_name |-> None,
      last_name |-> None, username |-> "abebe", email |-> "abebe@example.com"],
     [kind |-> "object", id |-> "8", name |-> None, first_name |-> "Sara",
      last_name |-> None, username |-> "sara", email |-> "sara@example.com"]}

\* What registerUser resolves to: the fields onSubmit reads.  A response that
\* the handler takes for a success varies in what its success branch reads, one
\* it takes for a failure in what the failure branch reads; a failure may still
\* carry tokens.
RegisterResponses ==
    [ok : {TRUE}, status : {200, 201},
     token : {None, "T"}, access : {None, "A"}, refresh : {None, "R"},
     error : {None}, username : {Undefined}, email : {Undefined},
     user : {Undefined} \cup UserObjects,
     draft_id : {None, "D"}]
    \cup
    [ok : {FALSE}, status : {201},
     token : {None, "T"}, access : {None, "A"}, refresh : {None, "R"},
     error : {None, "E"}, username : {Undefined}, email : {Undefined},
     user : {Undefined},
     draft_id : {None}]
    \cup
    [ok : {FALSE}, status : {400},
     token : {None, "T"}, access : {None}, refresh : {None, "R"},
     error : {None, "", "E"},
     username : {Undefined, Array(<<>>), Array(<<"U">>)},
     email : {Undefined, Array(<<"M">>)},
     user : {Undefined},
     draft_id : {None}]

GenericFailure ==
    "Failed to submit application. Please check your details and try again."
UnexpectedError == "An unexpected error occurred. Please try again later."

WizardInit ==
    /\ data = initialData
    /\ step = 1
    /\ isLoading = FALSE
    /\ error = None
    /\ closureData = NoClosure
    /\ registerRequest = NoRequest
    /\ registerInFlight = 0
    /\ localStorage \in {EmptyStorage, StoredBefore}
    /\ authToken = None
    /\ authUser = Undefined
    /\ navigation = NoNavigation

\* validStep with the password bound off by one.
validStepShortPassword ==
    IF step = 1 THEN
        /\ Truthy(data.first_name)
        /\ Truthy(data.last_name)
        /\ Truthy(data.username)
        /\ Truthy(data.email)
        /\ Truthy(data.password)
        /\ Len(data.password) > MinPasswordLength - 2
        /\ Truthy(data.phone_number)
        /\ Truthy(data.age)
    ELSE IF step = 2 THEN
        /\ Truthy(data.country)
        /\ Truthy(data.desiredJob)
        /\ Truthy(data.desiredStartDate)
    ELSE FALSE

\* validStep(), lines 134-149.
validStep ==
    IF step = 1 THEN
        /\ Truthy(data.first_name)
        /\ Truthy(data.last_name)
        /\ Truthy(data.username)
        /\ Truthy(data.email)
        /\ Truthy(data.password)
        /\ Len(data.password) >= MinPasswordLength
        /\ Truthy(data.phone_number)
        /\ Truthy(data.age)
    ELSE IF step = 2 THEN
        /\ Truthy(data.country)
        /\ Truthy(data.desiredJob)
        /\ Truthy(data.desiredStartDate)
    ELSE FALSE

Min(a, b) == IF a < b THEN a ELSE b
Max(a, b) == IF a > b THEN a ELSE b

\* Back gated on the step's validation, as Next is.
BackDisabledUnlessValid == step = 1 \/ isLoading \/ ~validStep

\* The `disabled` props of the three buttons and the conditions they render under.
BackDisabled == step = 1 \/ isLoading
NextShown == step < total
NextDisabledOnlyWhileLoading == isLoading
NextDisabled == ~validStep \/ isLoading
SubmitShown == step = total
SubmitDisabledIgnoringLoading == ~validStep
SubmitDisabled == ~validStep \/ isLoading

\* next and back, lines 78-79.
next(s) == Min(total, s + 1)
back(s) == Max(1, s - 1)

\* A step-1 input's onChange: update({field: value}).  The inputs of step 1 are
\* rendered only at step 1.
EditStep1 ==
    /\ WizardMounted
    /\ step = 1
    /\ \/ \E f \in Step1TextFields, v \in TextInputs :
             data' = [data EXCEPT ![f] = v]
       \/ \E v \in PasswordInputs :
             data' = [data EXCEPT !.password = v]
    /\ UNCHANGED <<step, isLoading, error, closureData, registerRequest, registerInFlight,
                   localStorage, authToken, authUser, navigation>>
    /\ UNCHANGED requestsDue
    /\ UNCHANGED outsideWizard

\* The country RadioGroup without the reset of the job: update({country: value}).
SelectCountryKeepingJob ==
    /\ WizardMounted
    /\ step = 2
    /\ \E c \in CountryChoices :
          data' = [data EXCEPT !.country = c]
    /\ UNCHANGED <<step, isLoading, error, closureData, registerRequest, registerInFlight,
                   localStorage, authToken, authUser, navigation>>
    /\ UNCHANGED requestsDue
    /\ UNCHANGED outsideWizard

\* The country RadioGroup: update({country: value, desiredJob: ''}).
SelectCountry ==
    /\ WizardMounted
    /\ step = 2
    /\ \E c \in CountryChoices :
          data' = [data EXCEPT !.country = c, !.desiredJob = ""]
    /\ UNCHANGED <<step, isLoading, error, closureData, registerRequest, registerInFlight,
                   localStorage, authToken, authUser, navigation>>
    /\ UNCHANGED requestsDue
    /\ UNCHANGED outsideWizard

\* The job RadioGroup, rendered when data.country has a job list.
SelectJob ==
    /\ WizardMounted
    /\ step = 2
    /\ Truthy(data.country)
    /\ data.country \in DOMAIN jobsByCountry
    /\ \E j \in JobChoices(data.country) :
          data' = [data EXCEPT !.desiredJob = j]
    /\ UNCHANGED <<step, isLoading, error, closureData, registerRequest, registerInFlight,
                   localStorage, authToken, authUser, navigation>>
    /\ UNCHANGED requestsDue
    /\ UNCHANGED outsideWizard

\* The month input: update({desiredStartDate: value}).
EditStartDate ==
    /\ WizardMounted
    /\ step = 2
    /\ \E v \in MonthInputs :
          data' = [data EXCEPT !.desiredStartDate = v]
    /\ UNCHANGED <<step, isLoading, error, closureData, registerRequest, registerInFlight,
                   localStorage, authToken, authUser, navigation>>
    /\ UNCHANGED requestsDue
    /\ UNCHANGED outsideWizard

\* A Next button shown at every step that adds one to the step.
WizardNextStepPastLast ==
    /\ WizardMounted
    /\ ~NextDisabled
    /\ step' = step + 1
    /\ UNCHANGED <<data, isLoading, error, closureData, registerRequest, registerInFlight,
                   localStorage, authToken, authUser, navigation>>
    /\ UNCHANGED requestsDue
    /\ UNCHANGED outsideWizard

\* The Next button.
WizardNextStep ==
    /\ WizardMounted
    /\ NextShown
    /\ ~NextDisabled
    /\ step' = next(step)
    /\ UNCHANGED <<data, isLoading, error, closureData, registerRequest, registerInFlight,
                   localStorage, authToken, authUser, navigation>>
    /\ UNCHANGED requestsDue
    /\ UNCHANGED outsideWizard

\* A Back button that also resets the form.
WizardBackResettingData ==
    /\ WizardMounted
    /\ ~BackDisabled
    /\ step' = back(step)
    /\ data' = initialData
    /\ UNCHANGED <<isLoading, error, closureData, registerRequest, registerInFlight,
                   localStorage, authToken, authUser, navigation>>
    /\ UNCHANGED requestsDue
    /\ UNCHANGED outsideWizard

\* The Back button.
WizardBack ==
    /\ WizardMounted
    /\ ~BackDisabled
    /\ step' = back(step)
    /\ UNCHANGED <<data, isLoading, error, closureData, registerRequest, registerInFlight,
                   localStorage, authToken, authUser, navigation>>
    /\ UNCHANGED requestsDue
    /\ UNCHANGED outsideWizard

\* `${first_name || ''} ${last_name || ''}`.trim(), for names without outer blanks.
FullName(u) ==
    LET f == Or(u.first_name, "")
        l == Or(u.last_name, "")
    IN  IF f = "" THEN l ELSE IF l = "" THEN f ELSE f \o " " \o l

\* The user handed to setUser, lines 104-107.
ContextUser(u) ==
    [kind |-> "object", name |-> Or(Or(u.name, FullName(u)), u.username),
     email |-> u.email]

\* res.ok || res.status === 201, line 91.
IsSuccess(res) == res.ok \/ res.status = 201

\* res.token || res.access, line 93.
TokenOf(res) == Or(res.token, res.access)

\* StoreTokens with the refresh token stored outside the `if (token)` block.
StoreTokensRefreshOutside(ls, res) ==
    [ls EXCEPT !.auth_access_token = IF Truthy(TokenOf(res)) THEN TokenOf(res) ELSE @,
               !.auth_refresh_token = IF Truthy(res.refresh) THEN res.refresh ELSE @]

\* The local storage after the success branch, lines 94-99.
StoreTokens(ls, res) ==
    IF Truthy(TokenOf(res)) THEN
        [ls EXCEPT !.auth_access_token = TokenOf(res),
                   !.auth_refresh_token =
                       IF Truthy(res.refresh) THEN res.refresh ELSE @]
    ELSE ls

\* PaymentState reading the form as it is when the response arrives.
PaymentStateOfLatestData(d, res) ==
    [draftId |-> Or(res.draft_id, "temp"),
     email |-> data.email,
     applicationData |-> data,
     userId |-> IF res.user.kind = "object" THEN res.user.id ELSE None]

\* The navigation state of the payment step, lines 113-120.  `d` is the `data`
\* of the render onSubmit was created in.
PaymentState(d, res) ==
    [draftId |-> Or(res.draft_id, "temp"),
     email |-> d.email,
     applicationData |-> d,
     userId |-> IF res.user.kind = "object" THEN res.user.id ELSE None]

\* errorMessage with the email error ahead of the username error.
errorMessageEmailFirst(res) ==
    Or(Or(Or(res.error, First(res.email)), First(res.username)), GenericFailure)

\* errorMessage, lines 123-124.
errorMessage(res) ==
    Or(Or(Or(res.error, First(res.username)), First(res.email)), GenericFailure)

\* onSubmit up to its await, lines 81-89: the Continue-to-payment button.
OnSubmit ==
    /\ WizardMounted
    /\ SubmitShown
    /\ ~SubmitDisabled
    /\ isLoading' = TRUE
    /\ error' = None
    /\ closureData' = Closure(data)
    /\ registerRequest' = Request(data)
    /\ registerInFlight' = registerInFlight + 1
    /\ UNCHANGED <<data, step, localStorage, authToken, authUser, navigation>>
    /\ requestsDue' = Issues(Accounts(requestsDue, 1), 1)
    /\ UNCHANGED outsideWizard

\* onSubmit after registerUser resolved to `res`, lines 91-126 and 129-131.
OnSubmitResolvedWith(res) ==
    /\ IF IsSuccess(res) THEN
           /\ localStorage' = StoreTokens(localStorage, res)
           /\ authToken' = IF Truthy(TokenOf(res)) THEN TokenOf(res) ELSE authToken
           /\ authUser' = IF Truthy(TokenOf(res)) /\ res.user.kind = "object"
                             THEN ContextUser(res.user) ELSE authUser
           /\ navigation' = [path |-> "/payment",
                              state |-> PaymentState(closureData.data, res)]
           /\ error' = error
       ELSE
           /\ error' = errorMessage(res)
           /\ UNCHANGED <<localStorage, authToken, authUser, navigation>>
    /\ isLoading' = FALSE
    /\ closureData' = NoClosure
    /\ registerRequest' = NoRequest
    /\ registerInFlight' = registerInFlight - 1
    /\ UNCHANGED <<data, step>>

OnSubmitResolved ==
    /\ WizardMounted
    /\ registerRequest.pending
    /\ \E res \in RegisterResponses : OnSubmitResolvedWith(res)
    /\ UNCHANGED requestsDue
    /\ UNCHANGED outsideWizard

\* The catch that calls registerUser again.
OnSubmitRejectedRetrying ==
    /\ registerRequest.pending
    /\ error' = UnexpectedError
    /\ requestsDue' = Issues(requestsDue, 1)
    /\ UNCHANGED <<data, step, isLoading, closureData, registerRequest,
                   registerInFlight, localStorage, authToken, authUser, navigation>>
    /\ UNCHANGED outsideWizard

\* onSubmit after registerUser rejected, lines 127-131.
OnSubmitRejected ==
    /\ WizardMounted
    /\ registerRequest.pending
    /\ error' = UnexpectedError
    /\ isLoading' = FALSE
    /\ closureData' = NoClosure
    /\ registerRequest' = NoRequest
    /\ registerInFlight' = registerInFlight - 1
    /\ UNCHANGED <<data, step, localStorage, authToken, authUser, navigation>>
    /\ UNCHANGED requestsDue
    /\ UNCHANGED outsideWizard

WizardNext ==
    \/ EditStep1
    \/ SelectCountry
    \/ SelectJob
    \/ EditStartDate
    \/ WizardNextStep
    \/ WizardBack
    \/ OnSubmit
    \/ OnSubmitResolved
    \/ OnSubmitRejected

(***************************************************************************)
(*                           THE CONTACT FORM                              *)
(***************************************************************************)

\* setTimeout(() => setSuccess(false), 5000), in seconds.
BannerSeconds == 5

ContactFields == {"name", "email", "subject", "message"}
\* The inputs marked `required`: the browser blocks the submit event otherwise.
RequiredFields == {"name", "email", "message"}

\* ClearedFormData with the subject left in place.
ClearedFormDataKeepingSubject ==
    [formData EXCEPT !.name = "", !.email = "", !.message = ""]

\* The argument of setFormData at line 38.
ClearedFormData == [name |-> "", email |-> "", subject |-> "", message |-> ""]

FailedToSend == "Failed to send message. Please try again."
NetworkError == "Network error. Please check your connection and try again."

\* What fetch resolves to: response.ok, and what response.json() gives for the
\* error branch: a body with or without a message, or a rejection ("throws").
ContactResponses ==
    [ok : BOOLEAN, json : {"body", "throws"}, message : {None, "", "M"}]

ContactInit ==
    /\ formData = [name |-> "", email |-> "", subject |-> "", message |-> ""]
    /\ contactLoading = FALSE
    /\ success = FALSE
    /\ contactError = None
    /\ contactRequest = NoRequest
    /\ contactInFlight = 0
    /\ timers = {}
    /\ shownFor = 0

\* handleChange, lines 51-56.
HandleChange ==
    /\ \E f \in ContactFields, v \in TextInputs :
          formData' = [formData EXCEPT ![f] = v]
    /\ UNCHANGED <<contactLoading, success, contactError, contactRequest,
                   contactInFlight, timers, shownFor>>
    /\ UNCHANGED requestsDue
    /\ UNCHANGED outsideContact

\* The submit button without its disabled prop.
ContactSubmitNeverDisabled == FALSE

\* The submit button: disabled={loading}.
ContactSubmitDisabled == contactLoading

\* handleSubmit without setError(null).
HandleSubmitKeepingError ==
    /\ ~ContactSubmitDisabled
    /\ \A f \in RequiredFields : formData[f] # ""
    /\ contactLoading' = TRUE
    /\ success' = FALSE
    /\ shownFor' = 0
    /\ contactRequest' = Request(formData)
    /\ contactInFlight' = contactInFlight + 1
    /\ UNCHANGED <<formData, contactError, timers>>
    /\ requestsDue' = Issues(Accounts(requestsDue, 1), 1)
    /\ UNCHANGED outsideContact

\* handleSubmit up to its await, lines 21-34.
HandleSubmit ==
    /\ ~ContactSubmitDisabled
    /\ \A f \in RequiredFields : formData[f] # ""
    /\ contactLoading' = TRUE
    /\ contactError' = None
    /\ success' = FALSE
    /\ shownFor' = 0
    /\ contactRequest' = Request(formData)
    /\ contactInFlight' = contactInFlight + 1
    /\ UNCHANGED <<formData, timers>>
    /\ requestsDue' = Issues(Accounts(requestsDue, 1), 1)
    /\ UNCHANGED outsideContact

\* handleSubmit after fetch resolved to `res`, lines 36-43 and 46-48.
HandleSubmitResolvedWith(res) ==
    /\ IF res.ok THEN
           /\ success' = TRUE
           /\ shownFor' = 0
           /\ formData' = ClearedFormData
           /\ timers' = timers \cup {BannerSeconds}
           /\ contactError' = contactError
       ELSE
           /\ contactError' = IF res.json = "throws" THEN NetworkError
                               ELSE Or(res.message, FailedToSend)
           /\ UNCHANGED <<success, shownFor, formData, timers>>
    /\ contactLoading' = FALSE
    /\ contactRequest' = NoRequest
    /\ contactInFlight' = contactInFlight - 1

HandleSubmitResolved ==
    /\ contactRequest.pending
    /\ \E res \in ContactResponses : HandleSubmitResolvedWith(res)
    /\ UNCHANGED requestsDue
    /\ UNCHANGED outsideContact

\* handleSubmit after fetch rejected, lines 44-48.
HandleSubmitRejected ==
    /\ contactRequest.pending
    /\ contactError' = NetworkError
    /\ contactLoading' = FALSE
    /\ contactRequest' = NoRequest
    /\ contactInFlight' = contactInFlight - 1
    /\ UNCHANGED <<formData, success, shownFor, timers>>
    /\ UNCHANGED requestsDue
    /\ UNCHANGED outsideContact

\* A timer set at line 39 expires: setSuccess(false).
TimerFires ==
    /\ 0 \in timers
    /\ timers' = timers \ {0}
    /\ success' = FALSE
    /\ shownFor' = 0
    /\ UNCHANGED <<formData, contactLoading, contactError, contactRequest,
                   contactInFlight>>
    /\ UNCHANGED requestsDue
    /\ UNCHANGED outsideContact

\* One second passes; an expired timer fires before time moves on.
Tick ==
    /\ timers # {}
    /\ 0 \notin timers
    /\ timers' = {t - 1 : t \in timers}
    /\ shownFor' = IF success THEN shownFor + 1 ELSE 0
    /\ UNCHANGED <<formData, contactLoading, success, contactError, contactRequest,
                   contactInFlight>>
    /\ UNCHANGED requestsDue
    /\ UNCHANGED outsideContact

ContactNext ==
    \/ HandleChange
    \/ HandleSubmit
    \/ HandleSubmitResolved
    \/ HandleSubmitRejected
    \/ TimerFires
    \/ Tick

(***************************************************************************)
(*                 JOB SITES, COUNTRIES AND THE QUERY STRING               *)
(* Text the views take apart (country names, site fields, the query        *)
(* string) is a sequence of characters.                                    *)
(***************************************************************************)

\* Bound on the length of a list of job sites in a response.
MaxSites == 2

\* Country names as the backend spells them: "Ab", "B a" (with a blank), "a+".
CountryAb == <<"A", "b">>
CountryBa == <<"B", " ", "a">>
CountryPlus == <<"a", "+">>

\* The job sites the backend knows.
SitePool ==
    {[id |-> 1, country |-> CountryAb, site_name |-> <<"a", "B">>, site_url |-> <<"b">>],
     [id |-> 2, country |-> CountryBa, site_name |-> <<"A">>, site_url |-> <<"a", "b">>],
     [id |-> 3, country |-> CountryAb, site_name |-> <<"b">>, site_url |-> <<"B", "a">>]}

\* The lists of job sites a response may carry: no site twice.
SiteLists ==
    {l \in UNION {[1..n -> SitePool] : n \in 0..MaxSites} :
        \A i, j \in DOMAIN l : i # j => l[i] # l[j]}

\* The popular-country lists a response may carry.
PopularLists ==
    {<<>>,
     <<[country |-> CountryBa, site_count |-> 1]>>,
     <<[country |-> CountryAb, site_count |-> 2],
       [country |-> CountryPlus, site_count |-> 1]>>}

\* encodeURIComponent, character by character: letters stay, the rest is
\* percent-encoded.
EncodeChar(c) ==
    CASE c = " " -> <<"%", "2", "0">>
      [] c = "+" -> <<"%", "2", "B">>
      [] c = "%" -> <<"%", "2", "5">>
      [] OTHER -> <<c>>

RECURSIVE encodeURIComponent(_)
encodeURIComponent(str) ==
    IF str = <<>> THEN <<>>
    ELSE EncodeChar(Head(str)) \o encodeURIComponent(Tail(str))

\* navigate(`/sites?country=${encodeURIComponent(countryName)}`): the location
\* with the raw text of its country parameter.
SitesLocation(rawCountry) == [path |-> "/sites", country |-> rawCountry]

(***************************************************************************)
(*                             THE DASHBOARD                               *)
(***************************************************************************)

OnDashboard == [path |-> "/dashboard"]
DashboardMounted == dashLocation.path = "/dashboard"

\* What fetchUserDashboard resolves to.  country '' stands for '' and for an
\* absent country alike (line 55 reads it through || '').
DashboardData ==
    [country : {<<>>, CountryAb},
     job_sites : {Undefined} \cup {Array(l) : l \in SiteLists}]

\* a || [] for an optional array.
OrEmpty(a) == IF a.kind = "array" THEN a.items ELSE <<>>

\* What fetchJobSites resolves to: an array, or an object that may carry ok,
\* status, results and data (ok FALSE also stands for an absent ok).
JobSitesResponses ==
    {[kind |-> "array", items |-> l] : l \in SiteLists}
    \cup
    [kind : {"object"}, ok : BOOLEAN, status : {200, 500},
     results : {Undefined} \cup {Array(l) : l \in SiteLists},
     data : {Undefined}]
    \cup
    [kind : {"object"}, ok : BOOLEAN, status : {200},
     results : {Undefined},
     data : {Array(l) : l \in SiteLists}]

\* What fetchPopularCountries resolves to.
PopularResponses ==
    [ok : BOOLEAN, popular_countries : {Undefined} \cup {Array(l) : l \in PopularLists}]

\* A property of a response that an array does not have.
Prop(res, name) == IF res.kind = "object" THEN res[name] ELSE Undefined
ResOk(res) == res.kind = "object" /\ res.ok

\* res.results || res.data || (Array.isArray(res) ? res : []), line 100.
DashboardJobSites(res) ==
    IF Prop(res, "results").kind = "array" THEN res.results.items
    ELSE IF Prop(res, "data").kind = "array" THEN res.data.items
    ELSE IF res.kind = "array" THEN res.items
    ELSE <<>>

\* displaySites, line 116.
displaySites == IF showAllCountries THEN allSites ELSE dashSites

DashboardInit ==
    /\ country = <<>>
    /\ dashSites = <<>>
    /\ allSites = <<>>
    /\ dashPopular = <<>>
    /\ showAllCountries = FALSE
    /\ dashLoading = TRUE
    /\ mountEffect = "start"
    /\ toggleHandler = "idle"
    /\ dashLocation = OnDashboard
    /\ backendDashboard \in DashboardData

DashboardIdle ==
    /\ country = <<>>
    /\ dashSites = <<>>
    /\ allSites = <<>>
    /\ dashPopular = <<>>
    /\ showAllCountries = FALSE
    /\ dashLoading = TRUE
    /\ mountEffect = "start"
    /\ toggleHandler = "idle"
    /\ dashLocation = OnDashboard
    /\ backendDashboard = [country |-> <<>>, job_sites |-> Undefined]

\* The mount effect up to its first await, lines 47-53.
MountEffect ==
    /\ DashboardMounted
    /\ mountEffect = "start"
    /\ dashLoading' = TRUE
    /\ mountEffect' = "awaitDashboard"
    /\ UNCHANGED <<country, dashSites, allSites, dashPopular, showAllCountries,
                   toggleHandler, dashLocation, backendDashboard>>
    /\ requestsDue' = Issues(Accounts(requestsDue, 2), 1)
    /\ UNCHANGED outsideDashboard

\* fetchUserDashboard resolved, lines 54-60: the effect goes on to the popular
\* countries.
MountDashboardResolved ==
    /\ DashboardMounted
    /\ mountEffect = "awaitDashboard"
    /\ \E ok \in BOOLEAN :
          IF ok THEN /\ country' = backendDashboard.country
                     /\ dashSites' = OrEmpty(backendDashboard.job_sites)
                ELSE UNCHANGED <<country, dashSites>>
    /\ mountEffect' = "awaitPopular"
    /\ UNCHANGED <<allSites, dashPopular, showAllCountries, dashLoading,
                   toggleHandler, dashLocation, backendDashboard>>
    /\ requestsDue' = Issues(requestsDue, 1)
    /\ UNCHANGED outsideDashboard

\* fetchPopularCountries resolved, lines 61-63 and 66-68.
MountPopularResolved ==
    /\ DashboardMounted
    /\ mountEffect = "awaitPopular"
    /\ \E res \in PopularResponses :
          dashPopular' = IF res.ok /\ res.popular_countries.kind = "array"
                           THEN res.popular_countries.items ELSE dashPopular
    /\ dashLoading' = FALSE
    /\ mountEffect' = "done"
    /\ UNCHANGED <<country, dashSites, allSites, showAllCountries,
                   toggleHandler, dashLocation, backendDashboard>>
    /\ UNCHANGED requestsDue
    /\ UNCHANGED outsideDashboard

\* The mount effect without its finally.
MountRejectedStillLoading ==
    /\ DashboardMounted
    /\ mountEffect \in {"awaitDashboard", "awaitPopular"}
    /\ mountEffect' = "done"
    /\ UNCHANGED <<country, dashSites, allSites, dashPopular, showAllCountries,
                   dashLoading, toggleHandler, dashLocation, backendDashboard>>
    /\ UNCHANGED requestsDue
    /\ UNCHANGED outsideDashboard

\* Either request of the mount effect rejected, lines 64-68.
MountRejected ==
    /\ DashboardMounted
    /\ mountEffect \in {"awaitDashboard", "awaitPopular"}
    /\ dashLoading' = FALSE
    /\ mountEffect' = "done"
    /\ UNCHANGED <<country, dashSites, allSites, dashPopular, showAllCountries,
                   toggleHandler, dashLocation, backendDashboard>>
    /\ UNCHANGED requestsDue
    /\ UNCHANGED outsideDashboard

\* handleViewCountry, lines 111-114.
handleViewCountry(countryName) == SitesLocation(encodeURIComponent(countryName))

\* The toggle button without its disabled prop.
ToggleNeverDisabled == FALSE

\* The toggle button: disabled={loading}.
ToggleDisabled == dashLoading

\* handleViewAllCountries up to its await (or its return), lines 72-97.
HandleViewAllCountries ==
    /\ DashboardMounted
    /\ ~ToggleDisabled
    /\ IF showAllCountries THEN
           /\ showAllCountries' = FALSE
           /\ IF country # <<>> THEN
                  /\ dashLocation' = handleViewCountry(country)
                  /\ UNCHANGED <<dashLoading, toggleHandler>>
              ELSE
                  /\ dashLoading' = TRUE
                  /\ toggleHandler' = "awaitDashboard"
                  /\ UNCHANGED dashLocation
       ELSE
           /\ dashLoading' = TRUE
           /\ toggleHandler' = "awaitJobSites"
           /\ UNCHANGED <<showAllCountries, dashLocation>>
    /\ UNCHANGED <<country, dashSites, allSites, dashPopular, mountEffect,
                   backendDashboard>>
    /\ requestsDue' = IF showAllCountries /\ country # <<>> THEN requestsDue
                     ELSE Issues(Accounts(requestsDue, 1), 1)
    /\ UNCHANGED outsideDashboard

\* fetchJobSites resolved to `res`, lines 98-103 and 106-108.
AllSitesResolvedWith(res) ==
    /\ allSites' = IF ResOk(res) THEN DashboardJobSites(res) ELSE allSites
    /\ showAllCountries' = TRUE
    /\ dashLoading' = FALSE
    /\ toggleHandler' = "idle"
    /\ UNCHANGED <<country, dashSites, dashPopular, mountEffect, dashLocation,
                   backendDashboard>>

AllSitesResolved ==
    /\ DashboardMounted
    /\ toggleHandler = "awaitJobSites"
    /\ \E res \in JobSitesResponses : AllSitesResolvedWith(res)
    /\ UNCHANGED requestsDue
    /\ UNCHANGED outsideDashboard

\* fetchUserDashboard of the toggle resolved, lines 83-85 and 88-90.
ToggleDashboardResolved ==
    /\ DashboardMounted
    /\ toggleHandler = "awaitDashboard"
    /\ \E ok \in BOOLEAN :
          dashSites' = IF ok THEN OrEmpty(backendDashboard.job_sites) ELSE dashSites
    /\ dashLoading' = FALSE
    /\ toggleHandler' = "idle"
    /\ UNCHANGED <<country, allSites, dashPopular, showAllCountries, mountEffect,
                   dashLocation, backendDashboard>>
    /\ UNCHANGED requestsDue
    /\ UNCHANGED outsideDashboard

\* Either request of the toggle rejected, lines 86-90 and 104-108.
ToggleRejected ==
    /\ DashboardMounted
    /\ toggleHandler # "idle"
    /\ dashLoading' = FALSE
    /\ toggleHandler' = "idle"
    /\ UNCHANGED <<country, dashSites, allSites, dashPopular, showAllCountries,
                   mountEffect, dashLocation, backendDashboard>>
    /\ UNCHANGED requestsDue
    /\ UNCHANGED outsideDashboard

\* A popular-country button: handleViewCountry(item.country), line 324.
ViewPopularCountry ==
    /\ DashboardMounted
    /\ \E i \in DOMAIN dashPopular :
          dashLocation' = handleViewCountry(dashPopular[i].country)
    /\ UNCHANGED <<country, dashSites, allSites, dashPopular, showAllCountries,
                   dashLoading, mountEffect, toggleHandler, backendDashboard>>
    /\ UNCHANGED requestsDue
    /\ UNCHANGED outsideDashboard

DashboardNext ==
    \/ MountEffect
    \/ MountDashboardResolved
    \/ MountPopularResolved
    \/ MountRejected
    \/ HandleViewAllCountries
    \/ AllSitesResolved
    \/ ToggleDashboardResolved
    \/ ToggleRejected
    \/ ViewPopularCountry

(***************************************************************************)
(*                          THE SITES DIRECTORY                            *)
(***************************************************************************)

\* Bound on the fetchJobSites calls in flight at once.
MaxInFlight == 2
\* Bound on the length of what the user types into the search box.
MaxQueryLen == 2

All == <<"a", "l", "l">>
CountryNames == {CountryAb, CountryBa, CountryPlus}

\* The URL's country parameter: absent, or present with its raw text.
NoParam == [present |-> FALSE]
Param(raw) == [present |-> TRUE, raw |-> raw]

\* The serialisation with '+' left as it is.
FormEncodeCharPlusLiteral(c) ==
    CASE c = " " -> <<"+">>
      [] c = "%" -> <<"%", "2", "5">>
      [] OTHER -> <<c>>

\* The serialisation of a URLSearchParams value (setSearchParams): a blank
\* becomes '+', other non-letters are percent-encoded.
FormEncodeChar(c) ==
    CASE c = " " -> <<"+">>
      [] c = "+" -> <<"%", "2", "B">>
      [] c = "%" -> <<"%", "2", "5">>
      [] OTHER -> <<c>>

RECURSIVE FormEncode(_)
FormEncode(str) ==
    IF str = <<>> THEN <<>>
    ELSE FormEncodeChar(Head(str)) \o FormEncode(Tail(str))

\* The parse of a URLSearchParams value: '+' is a blank, %XX is the character
\* with that code.
PercentDecoded(hex) ==
    CASE hex = <<"2", "0">> -> <<" ">>
      [] hex = <<"2", "B">> -> <<"+">>
      [] hex = <<"2", "5">> -> <<"%">>
      [] OTHER -> <<"%">> \o hex

RECURSIVE FormDecode(_)
FormDecode(raw) ==
    IF raw = <<>> THEN <<>>
    ELSE IF Head(raw) = "+" THEN <<" ">> \o FormDecode(Tail(raw))
    ELSE IF Head(raw) = "%" /\ Len(raw) >= 3
         THEN PercentDecoded(SubSeq(raw, 2, 3)) \o FormDecode(SubSeq(raw, 4, Len(raw)))
    ELSE <<Head(raw)>> \o FormDecode(Tail(raw))

\* searchParams.get('country') || 'all'
CountryOrAll(params) ==
    IF params.present /\ FormDecode(params.raw) # <<>>
    THEN FormDecode(params.raw) ELSE All

\* !countryParam
NoCountryParam(params) == ~params.present \/ FormDecode(params.raw) = <<>>

\* The target of a fetchJobSites call: All for fetchJobSites(), else the country.
RequestTargets == {All} \cup CountryNames
NoRequests == [t \in RequestTargets |-> 0]
Issue(reqs, t) == [reqs EXCEPT ![t] = @ + 1]
Settle(reqs, t) == [reqs EXCEPT ![t] = @ - 1]
InFlight ==
    jobSitesRequests[All] + jobSitesRequests[CountryAb]
    + jobSitesRequests[CountryBa] + jobSitesRequests[CountryPlus]

\* A property that is present but is not an array.
NotArray == [kind |-> "other"]

\* Further shapes of a fetchJobSites result the sites view may meet: results
\* and data both arrays, and results or data present without being arrays.
MalformedJobSitesResponses ==
    [kind : {"object"}, ok : {TRUE}, status : {200},
     results : {Array(l) : l \in SiteLists}, data : {Array(<<>>)}]
    \cup
    [kind : {"object"}, ok : {TRUE}, status : {200},
     results : {Array(<<>>)}, data : {Array(l) : l \in SiteLists}]
    \cup
    [kind : {"object"}, ok : BOOLEAN, status : {200},
     results : {NotArray},
     data : {Undefined, NotArray} \cup {Array(l) : l \in SiteLists}]

SitesResponses == JobSitesResponses \cup MalformedJobSitesResponses

\* The parser of loadAllSites with data looked at before results.
ParseAllJobSitesDataFirst(res) ==
    IF Prop(res, "data").kind = "array" THEN res.data.items
    ELSE IF Prop(res, "results").kind = "array" THEN res.results.items
    ELSE IF res.kind = "array" THEN res.items
    ELSE <<>>

\* The parser of loadSitesForCountry, lines 105-115.
ParseJobSites(res) ==
    IF Prop(res, "results").kind = "array" THEN res.results.items
    ELSE IF Prop(res, "data").kind = "array" THEN res.data.items
    ELSE IF res.kind = "array" THEN res.items
    ELSE <<>>

\* The parser of loadAllSites, lines 135-145.
ParseAllJobSites(res) ==
    IF Prop(res, "results").kind = "array" THEN res.results.items
    ELSE IF Prop(res, "data").kind = "array" THEN res.data.items
    ELSE IF res.kind = "array" THEN res.items
    ELSE <<>>

\* The parser of the loader that serves a target.
ParsedBy(target, res) ==
    IF target = All THEN ParseAllJobSites(res) ELSE ParseJobSites(res)

\* The backend answers a request for a country with sites of that country.
ResponsesTo(target) ==
    {res \in SitesResponses :
        target = All \/ \A i \in DOMAIN ParseJobSites(res) :
                            ParseJobSites(res)[i].country = target}

\* The order of Array.prototype.sort() on strings: by character code.
CharCode(c) ==
    CASE c = " " -> 32 [] c = "%" -> 37 [] c = "+" -> 43
      [] c = "A" -> 65 [] c = "B" -> 66
      [] c = "a" -> 97 [] c = "b" -> 98 [] c = "l" -> 108
      [] OTHER -> 127

RECURSIVE Before(_, _)
Before(x, y) ==
    IF x = <<>> THEN y # <<>>
    ELSE IF y = <<>> THEN FALSE
    ELSE IF Head(x) # Head(y) THEN CharCode(Head(x)) < CharCode(Head(y))
    ELSE Before(Tail(x), Tail(y))

RECURSIVE Sorted(_)
Sorted(S) ==
    IF S = {} THEN <<>>
    ELSE LET m == CHOOSE x \in S : \A y \in S \ {x} : Before(x, y)
         IN  <<m>> \o Sorted(S \ {m})

\* The countries of the loaded sites, lines 152-156: merged into the list,
\* duplicates removed, sorted.
MergeCountries(prev, jobSites) ==
    Sorted(Range(prev) \cup
           {jobSites[i].country : i \in {j \in DOMAIN jobSites : jobSites[j].country # <<>>}})

\* The URLs the view may be opened with.
InitialParams ==
    {NoParam, Param(<<>>), Param(All)}
    \cup {Param(encodeURIComponent(c)) : c \in CountryNames}
    \cup {Param(FormEncode(c)) : c \in CountryNames}

SitesInit ==
    /\ searchParams \in InitialParams
    /\ selectedCountry = CountryOrAll(searchParams)
    /\ sites = <<>>
    /\ popularCountries = <<>>
    /\ sitesLoading = TRUE
    /\ allCountries = <<>>
    /\ searchQuery = <<>>
    /\ sitesMounted = FALSE
    /\ jobSitesRequests = NoRequests
    /\ popularRequest = FALSE

SitesIdle ==
    /\ searchParams = NoParam
    /\ selectedCountry = All
    /\ sites = <<>>
    /\ popularCountries = <<>>
    /\ sitesLoading = TRUE
    /\ allCountries = <<>>
    /\ searchQuery = <<>>
    /\ sitesMounted = FALSE
    /\ jobSitesRequests = NoRequests
    /\ popularRequest = FALSE

\* The effect that always loads every site.
LoadSitesTargetAlwaysAll(selected) == All

\* The effect on selectedCountry, lines 83-96: the target of its request.
LoadSitesTarget(selected) ==
    IF selected # <<>> /\ selected # All THEN selected ELSE All

\* The three effects of the first render, lines 50-96.  The first one does not
\* change selectedCountry: the state was initialised from the same parameter.
SitesMount ==
    /\ ~sitesMounted
    /\ sitesMounted' = TRUE
    /\ jobSitesRequests' =
          LET first == IF NoCountryParam(searchParams)
                         THEN Issue(jobSitesRequests, All) ELSE jobSitesRequests
          IN  Issue(first, LoadSitesTarget(selectedCountry))
    /\ popularRequest' = TRUE
    /\ sitesLoading' = TRUE
    /\ UNCHANGED <<selectedCountry, sites, popularCountries, allCountries,
                   searchQuery, searchParams>>
    /\ requestsDue' = LET n == IF NoCountryParam(searchParams) THEN 3 ELSE 2
                     IN  Issues(Accounts(requestsDue, n), n)
    /\ UNCHANGED outsideSites

\* A new selectedCountry re-runs the effect of lines 83-96.
AfterSelection(newCountry) ==
    IF newCountry # selectedCountry
    THEN /\ jobSitesRequests' = Issue(jobSitesRequests, LoadSitesTarget(newCountry))
         /\ sitesLoading' = TRUE
    ELSE UNCHANGED <<jobSitesRequests, sitesLoading>>

\* setSearchParams of handleCountryChange, lines 169-173.
ParamsFor(c) == IF c # <<>> /\ c # All THEN Param(FormEncode(c)) ELSE NoParam

\* handleCountryChange, lines 166-174: the country selector.
HandleCountryChange ==
    /\ sitesMounted
    /\ InFlight < MaxInFlight
    /\ \E c \in {All} \cup Range(allCountries) :
          /\ selectedCountry' = c
          /\ searchParams' = ParamsFor(c)
          /\ AfterSelection(c)
    /\ UNCHANGED <<sites, popularCountries, allCountries, searchQuery,
                   sitesMounted, popularRequest>>
    /\ requestsDue' = LET n == IF selectedCountry' # selectedCountry THEN 1 ELSE 0
                     IN  Issues(Accounts(requestsDue, n), n)
    /\ UNCHANGED outsideSites

\* A popular-country tile, lines 459-462.
PopularCountryClick ==
    /\ sitesMounted
    /\ InFlight < MaxInFlight
    /\ \E i \in DOMAIN popularCountries :
          LET c == popularCountries[i].country IN
          /\ selectedCountry' = c
          /\ searchParams' = Param(encodeURIComponent(c))
          /\ AfterSelection(c)
    /\ UNCHANGED <<sites, popularCountries, allCountries, searchQuery,
                   sitesMounted, popularRequest>>
    /\ requestsDue' = LET n == IF selectedCountry' # selectedCountry THEN 1 ELSE 0
                     IN  Issues(Accounts(requestsDue, n), n)
    /\ UNCHANGED outsideSites

\* The continuation that drops a response whose request is no longer the one
\* the selection asks for.
JobSitesResolvedIfCurrent(target, res) ==
    /\ sites' = IF target = LoadSitesTarget(selectedCountry)
                   THEN ParsedBy(target, res) ELSE sites
    /\ allCountries' = IF target = All /\ Len(ParseAllJobSites(res)) > 0
                          THEN MergeCountries(allCountries, ParseAllJobSites(res))
                          ELSE allCountries
    /\ sitesLoading' = FALSE
    /\ jobSitesRequests' = Settle(jobSitesRequests, target)
    /\ UNCHANGED <<selectedCountry, popularCountries, searchQuery, searchParams,
                   sitesMounted, popularRequest>>

\* loadSitesForCountry / loadAllSites after fetchJobSites resolved to `res`,
\* lines 102-118, 122-124 and 132-157, 161-163.
JobSitesResolvedWith(target, res) ==
    /\ sites' = ParsedBy(target, res)
    /\ allCountries' = IF target = All /\ Len(ParseAllJobSites(res)) > 0
                          THEN MergeCountries(allCountries, ParseAllJobSites(res))
                          ELSE allCountries
    /\ sitesLoading' = FALSE
    /\ jobSitesRequests' = Settle(jobSitesRequests, target)
    /\ UNCHANGED <<selectedCountry, popularCountries, searchQuery, searchParams,
                   sitesMounted, popularRequest>>

JobSitesResolved ==
    /\ \E target \in RequestTargets :
          /\ jobSitesRequests[target] > 0
          /\ \E res \in ResponsesTo(target) : JobSitesResolvedWith(target, res)
    /\ UNCHANGED requestsDue
    /\ UNCHANGED outsideSites

\* The catch that keeps the loaded set.
JobSitesRejectedKeepingSites ==
    /\ \E target \in RequestTargets :
          /\ jobSitesRequests[target] > 0
          /\ jobSitesRequests' = Settle(jobSitesRequests, target)
    /\ sitesLoading' = FALSE
    /\ UNCHANGED <<selectedCountry, sites, popularCountries, allCountries,
                   searchQuery, searchParams, sitesMounted, popularRequest>>
    /\ UNCHANGED requestsDue
    /\ UNCHANGED outsideSites

\* loadSitesForCountry / loadAllSites after fetchJobSites rejected,
\* lines 119-124 and 158-163.
JobSitesRejected ==
    /\ \E target \in RequestTargets :
          /\ jobSitesRequests[target] > 0
          /\ jobSitesRequests' = Settle(jobSitesRequests, target)
    /\ sites' = <<>>
    /\ sitesLoading' = FALSE
    /\ UNCHANGED <<selectedCountry, popularCountries, allCountries, searchQuery,
                   searchParams, sitesMounted, popularRequest>>
    /\ UNCHANGED requestsDue
    /\ UNCHANGED outsideSites

\* fetchInitialData after fetchPopularCountries resolved, lines 69-74.
PopularResolved ==
    /\ popularRequest
    /\ popularRequest' = FALSE
    /\ \E res \in PopularResponses :
          IF res.ok /\ res.popular_countries.kind = "array" THEN
              /\ popularCountries' = res.popular_countries.items
              /\ allCountries' = [i \in DOMAIN res.popular_countries.items |->
                                     res.popular_countries.items[i].country]
          ELSE UNCHANGED <<popularCountries, allCountries>>
    /\ UNCHANGED <<selectedCountry, sites, sitesLoading, searchQuery, searchParams,
                   sitesMounted, jobSitesRequests>>
    /\ UNCHANGED requestsDue
    /\ UNCHANGED outsideSites

\* fetchInitialData after fetchPopularCountries rejected, lines 75-77.
PopularRejected ==
    /\ popularRequest
    /\ popularRequest' = FALSE
    /\ UNCHANGED <<selectedCountry, sites, popularCountries, sitesLoading,
                   allCountries, searchQuery, searchParams, sitesMounted,
                   jobSitesRequests>>
    /\ UNCHANGED requestsDue
    /\ UNCHANGED outsideSites

\* String.prototype.toLowerCase on the letters of the model.
UpperLetters ==
    <<"A", "B", "C", "D", "E", "F", "G", "H", "I", "J", "K", "L", "M",
      "N", "O", "P", "Q", "R", "S", "T", "U", "V", "W", "X", "Y", "Z">>
LowerLetters ==
    <<"a", "b", "c", "d", "e", "f", "g", "h", "i", "j", "k", "l", "m",
      "n", "o", "p", "q", "r", "s", "t", "u", "v", "w", "x", "y", "z">>
LowerChar(c) ==
    IF \E i \in DOMAIN UpperLetters : UpperLetters[i] = c
    THEN LowerLetters[CHOOSE i \in DOMAIN UpperLetters : UpperLetters[i] = c]
    ELSE c
toLowerCase(str) == [i \in DOMAIN str |-> LowerChar(str[i])]

\* String.prototype.includes
includes(str, part) ==
    \E i \in 0..(Len(str) - Len(part)) : SubSeq(str, i + 1, i + Len(part)) = part

\* The filter that leaves the site_url out.
SiteShownWithoutUrl(site, q) ==
    IF q = <<>> THEN TRUE
    ELSE LET query == toLowerCase(q)
         IN  \/ includes(toLowerCase(site.site_name), query)
             \/ includes(toLowerCase(site.country), query)

\* The callback of sites.filter, lines 177-185.
SiteShown(site, q) ==
    IF q = <<>> THEN TRUE
    ELSE LET query == toLowerCase(q)
         IN  \/ includes(toLowerCase(site.site_name), query)
             \/ includes(toLowerCase(site.country), query)
             \/ includes(toLowerCase(site.site_url), query)

FilterSites(list, q) == SelectSeq(list, LAMBDA site : SiteShown(site, q))
filteredSites == FilterSites(sites, searchQuery)

\* What the user may type into the search box.
QueryChars == {"a", "A", "b", "B"}
Queries == UNION {[1..n -> QueryChars] : n \in 0..MaxQueryLen}

\* The view with a set loaded and nothing in flight.
SitesLoaded ==
    /\ searchParams = NoParam
    /\ selectedCountry = All
    /\ sites \in SiteLists
    /\ popularCountries = <<>>
    /\ sitesLoading = FALSE
    /\ allCountries = MergeCountries(<<>>, sites)
    /\ searchQuery = <<>>
    /\ sitesMounted = TRUE
    /\ jobSitesRequests = NoRequests
    /\ popularRequest = FALSE

\* The search box, line 241.
SearchChange ==
    /\ sitesMounted
    /\ \E q \in Queries : searchQuery' = q
    /\ UNCHANGED <<selectedCountry, sites, popularCountries, sitesLoading,
                   allCountries, searchParams, sitesMounted, jobSitesRequests,
                   popularRequest>>
    /\ UNCHANGED requestsDue
    /\ UNCHANGED outsideSites

\* The "clear" buttons, lines 316-320 and 413.
ClearSearch ==
    /\ sitesMounted /\ ~sitesLoading
    /\ searchQuery # <<>>
    /\ searchQuery' = <<>>
    /\ UNCHANGED <<selectedCountry, sites, popularCountries, sitesLoading,
                   allCountries, searchParams, sitesMounted, jobSitesRequests,
                   popularRequest>>
    /\ UNCHANGED requestsDue
    /\ UNCHANGED outsideSites

FilterNext ==
    \/ SearchChange
    \/ ClearSearch

SitesNext ==
    \/ SitesMount
    \/ HandleCountryChange
    \/ PopularCountryClick
    \/ JobSitesResolved
    \/ JobSitesRejected
    \/ PopularResolved
    \/ PopularRejected

(***************************************************************************)
(*                          THE COUNTRY IMAGES                             *)
(***************************************************************************)

\* Bound on the number of letters of a key whose case a name changes.
MaxCaseChanges == 2

Null == "null"

\* countryImageMap, lines 521-525: its own properties, in insertion order.
Germany == <<"G", "e", "r", "m", "a", "n", "y">>
Romania == <<"R", "o", "m", "a", "n", "i", "a">>
countryImageMap ==
    <<[key |-> Germany, value |-> "/assets/german.jpg"],
      [key |-> Romania, value |-> "/assets/romania.jpg"]>>

\* Object.keys(countryImageMap)
ObjectKeys == [i \in DOMAIN countryImageMap |-> countryImageMap[i].key]

\* Properties every plain object inherits from Object.prototype (two of them).
ConstructorName == <<"c", "o", "n", "s", "t", "r", "u", "c", "t", "o", "r">>
ToStringName == <<"t", "o", "S", "t", "r", "i", "n", "g">>
ObjectPrototype ==
    <<[key |-> ConstructorName, value |-> "function Object"],
      [key |-> ToStringName, value |-> "function toString"]>>

\* obj[name] on a list of properties: the value, or undefined.
OwnProperty(props, name) ==
    IF \E i \in DOMAIN props : props[i].key = name
    THEN props[CHOOSE i \in DOMAIN props : props[i].key = name].value
    ELSE None

\* countryImageMap[name]: an own property, else one inherited from
\* Object.prototype, else undefined.
MapLookup(name) ==
    IF OwnProperty(countryImageMap, name) # None
    THEN OwnProperty(countryImageMap, name)
    ELSE OwnProperty(ObjectPrototype, name)

\* Array.prototype.find over the keys: the first key that matches, or undefined.
FindKey(normalizedName) ==
    LET hits == {i \in DOMAIN ObjectKeys : toLowerCase(ObjectKeys[i]) = normalizedName}
    IN  IF hits = {} THEN None
        ELSE ObjectKeys[CHOOSE i \in hits : \A j \in hits : i <= j]

\* getCountryImage, lines 532-547.
getCountryImage(name) ==
    IF name = <<>> THEN Null
    ELSE IF Truthy(MapLookup(name)) THEN MapLookup(name)
    ELSE LET matchedKey == FindKey(toLowerCase(name))
         IN  IF matchedKey # None THEN MapLookup(matchedKey) ELSE Null

\* hasCountryImage, lines 554-556.
hasCountryImage(name) == getCountryImage(name) # Null

\* getAvailableCountries, lines 562-564.
getAvailableCountries == ObjectKeys

\* A key with the case of the letters at the given positions changed.
SwapCase(c) ==
    IF \E i \in DOMAIN UpperLetters : UpperLetters[i] = c
    THEN LowerLetters[CHOOSE i \in DOMAIN UpperLetters : UpperLetters[i] = c]
    ELSE IF \E i \in DOMAIN LowerLetters : LowerLetters[i] = c
    THEN UpperLetters[CHOOSE i \in DOMAIN LowerLetters : LowerLetters[i] = c]
    ELSE c
CaseVariants(key) ==
    {[i \in DOMAIN key |-> IF i \in at THEN SwapCase(key[i]) ELSE key[i]] :
        at \in {a \in SUBSET DOMAIN key : Cardinality(a) <= MaxCaseChanges}}

\* The names the functions are called with: the keys in other cases, the
\* country names of the backend, the empty name, near misses and two names of
\* inherited properties.
ImageNames ==
    CaseVariants(Germany) \cup CaseVariants(Romania) \cup CountryNames
    \cup {<<>>, <<"G", "e", "r", "m", "a", "n">>, <<"R", "o", "m", "a", "n", "i", "a", " ">>,
           ConstructorName, ToStringName}

NotCalled == [called |-> FALSE]

ImagesInit ==
    /\ imageName \in ImageNames
    /\ imageCall = NotCalled

ImagesIdle ==
    /\ imageName = <<>>
    /\ imageCall = NotCalled

\* A caller asks for the image of a country name: getCountryImage and
\* hasCountryImage, lines 532-556 (the tiles do so at lines 329 and 454).
CallCountryImage ==
    /\ ~imageCall.called
    /\ imageCall' = [called |-> TRUE,
                      image |-> getCountryImage(imageName),
                      has |-> hasCountryImage(imageName)]
    /\ UNCHANGED imageName
    /\ UNCHANGED outsideImages

\* The next call is for another name.
NextCountryName ==
    /\ imageCall.called
    /\ \E n \in ImageNames : imageName' = n
    /\ imageCall' = NotCalled
    /\ UNCHANGED outsideImages

ImagesNext ==
    \/ CallCountryImage
    \/ NextCountryName

WizardSpecInit ==
    /\ WizardInit /\ ContactInit /\ DashboardIdle /\ SitesIdle /\ route = "/apply" /\ requestsDue = 0
    /\ ImagesIdle
WizardSpec == WizardSpecInit /\ [][WizardNext]_vars

ContactSpecInit ==
    /\ ContactInit /\ WizardIdle /\ DashboardIdle /\ SitesIdle /\ route = "/contact" /\ requestsDue = 0
    /\ ImagesIdle
ContactSpec == ContactSpecInit /\ [][ContactNext]_vars

DashboardSpecInit ==
    /\ DashboardInit /\ WizardIdle /\ ContactInit /\ SitesIdle /\ route = "/dashboard" /\ requestsDue = 0
    /\ ImagesIdle
DashboardSpec == DashboardSpecInit /\ [][DashboardNext]_vars

SitesSpecInit ==
    /\ SitesInit /\ WizardIdle /\ ContactInit /\ DashboardIdle /\ route = "/sites" /\ requestsDue = 0
    /\ ImagesIdle
SitesSpec == SitesSpecInit /\ [][SitesNext]_vars

FilterSpecInit ==
    /\ SitesLoaded /\ WizardIdle /\ ContactInit /\ DashboardIdle /\ route = "/sites" /\ requestsDue = 0
    /\ ImagesIdle
FilterSpec == FilterSpecInit /\ [][FilterNext]_vars

ImagesSpecInit ==
    /\ ImagesInit /\ WizardIdle /\ ContactInit /\ DashboardIdle /\ SitesIdle
    /\ route = "/sites" /\ requestsDue = 0
ImagesSpec == ImagesSpecInit /\ [][ImagesNext]_vars

\* The application with any one of its four views mounted.
ViewsSpecInit ==
    \/ WizardSpecInit
    \/ ContactSpecInit
    \/ DashboardSpecInit
    \/ SitesSpecInit

ViewsNext ==
    \/ route = "/apply" /\ WizardNext
    \/ route = "/contact" /\ ContactNext
    \/ route = "/dashboard" /\ DashboardNext
    \/ route = "/sites" /\ SitesNext

ViewsSpec == ViewsSpecInit /\ [][ViewsNext]_vars

(***************************************************************************)
(*                      Properties of the wizard                           *)
(***************************************************************************)

\* The seven fields of step 1 are filled in and the password is long enough.
Step1Complete(d) ==
    /\ \A f \in Step1TextFields : d[f] # ""
    /\ d.password # ""
    /\ Len(d.password) >= 8

\* C1: the step becomes 2 only by a step taken at step 1, outside any
\* submission, that leaves the form data alone (the Next action), and only from a
\* state in which every step-1 field is non-empty and the password has at least
\* 8 characters.
C1_Step2OnlyThroughGatedNext ==
    [][(step # 2 /\ step' = 2) =>
          /\ step = 1
          /\ ~isLoading
          /\ data' = data
          /\ Step1Complete(data)]_vars

\* C1 witness: step 2 has been entered with a password of exactly 8 characters.
C1_Witness == step = 2 /\ Len(data.password) = 8 /\ data.country = ""

\* The response is a success in the sense of line 91.
SuccessResponse(res) == res.ok \/ res.status = 201

\* The token a response carries: token, else access; None when it has neither.
CarriedToken(res) ==
    IF res.token \notin {None, ""} THEN res.token
    ELSE IF res.access \notin {None, ""} THEN res.access
    ELSE None

\* C7 as stated: every success response stores a session token under
\* auth_access_token and navigates to the payment step with the data sent.
C7_Original ==
    [][registerRequest.pending /\ ~registerRequest'.pending =>
       \A res \in RegisterResponses :
          (OnSubmitResolvedWith(res) /\ SuccessResponse(res)) =>
              /\ CarriedToken(res) # None
              /\ localStorage'.auth_access_token = CarriedToken(res)
              /\ navigation'.path = "/payment"
              /\ navigation'.state.applicationData = registerRequest.body
              /\ navigation'.state.email = registerRequest.body.email]_vars

\* C7 as amended: every success response navigates to the payment step with
\* navigation state whose applicationData and email are the data sent in the
\* request; the token is stored under auth_access_token when the response carries
\* one (token, else access), and local storage is left alone when it carries none.
C7_SuccessNavigatesWithSentData ==
    [][registerRequest.pending /\ ~registerRequest'.pending =>
       \A res \in RegisterResponses :
          (OnSubmitResolvedWith(res) /\ SuccessResponse(res)) =>
              /\ CarriedToken(res) # None =>
                     localStorage'.auth_access_token = CarriedToken(res)
              /\ CarriedToken(res) = None => localStorage' = localStorage
              /\ navigation'.path = "/payment"
              /\ navigation'.state.applicationData = registerRequest.body
              /\ navigation'.state.email = registerRequest.body.email]_vars

\* C7 witness: the wizard has navigated with the data of the request although the
\* form was edited while the request was in flight, and stored the access token.
C7_Witness ==
    /\ navigation.path = "/payment"
    /\ navigation.state.applicationData # data
    /\ localStorage.auth_access_token = "A"

\* C8: local storage changes only in the step that handles a success response
\* of the registration request; that step writes the response's token under
\* auth_access_token, and auth_refresh_token changes only together with it.  A
\* failure response and a rejected call leave local storage as it was.
C8_StorageWrittenOnlyOnSuccess ==
    [][/\ localStorage' # localStorage =>
             /\ registerRequest.pending
             /\ \E res \in RegisterResponses :
                   /\ OnSubmitResolvedWith(res)
                   /\ SuccessResponse(res)
                   /\ CarriedToken(res) # None
                   /\ localStorage'.auth_access_token = CarriedToken(res)
                   /\ localStorage'.auth_refresh_token \in
                          {localStorage.auth_refresh_token, res.refresh}
       /\ registerRequest.pending /\ ~registerRequest'.pending =>
             \A res \in RegisterResponses :
                (OnSubmitResolvedWith(res) /\ ~SuccessResponse(res))
                    => localStorage' = localStorage
       /\ OnSubmitRejected => localStorage' = localStorage]_vars

\* C8 witness: a success response replaced both tokens of an earlier session.
C8_Witness ==
    /\ navigation.path = "/payment"
    /\ localStorage.auth_access_token = "T"
    /\ localStorage.auth_refresh_token = "R"

\* The banner text the claim prescribes for a failure response.
FirstAvailableError(res) ==
    IF res.error \notin {None, ""} THEN res.error
    ELSE IF res.username.kind = "array" /\ res.username.items # <<>>
            /\ res.username.items[1] \notin {None, ""}
         THEN res.username.items[1]
    ELSE IF res.email.kind = "array" /\ res.email.items # <<>>
            /\ res.email.items[1] \notin {None, ""}
         THEN res.email.items[1]
    ELSE "Failed to submit application. Please check your details and try again."

\* C9: a failure response sets the banner to the first available of the
\* response's error, its first username error, its first email error and the
\* generic message; a rejected call sets it to the 'unexpected error' message.  In
\* both cases step, form data, local storage and navigation are unchanged.
C9_FailureShowsFirstAvailableError ==
    [][/\ registerRequest.pending /\ ~registerRequest'.pending =>
             \A res \in RegisterResponses :
                (OnSubmitResolvedWith(res) /\ ~SuccessResponse(res)) =>
                    /\ error' = FirstAvailableError(res)
                    /\ UNCHANGED <<step, data, localStorage, navigation>>
       /\ OnSubmitRejected =>
             /\ error' = "An unexpected error occurred. Please try again later."
             /\ UNCHANGED <<step, data, localStorage, navigation>>]_vars

\* C9 witness: the banner shows the first username error of a failure response.
C9_Witness == error = "U" /\ step = 2 /\ ~isLoading /\ navigation.path = None

\* C10 as stated: at step 2 of the displayed wizard the Back action is always
\* enabled, also while a submission is in flight.
C10_Original == step = 2 /\ navigation.path = None => ENABLED WizardBack

\* C10 as amended: at step 2 of the displayed wizard, with no submission in
\* flight, Back is enabled whatever the fields hold, and taking it moves to step 1.
C10_BackEnabledWhenNotSubmitting ==
    /\ [](step = 2 /\ ~isLoading /\ navigation.path = None => ENABLED WizardBack)
    /\ [][WizardBack => step = 2 /\ step' = 1]_vars

\* C10 witness: Back was taken from step 2 with step 2 only partly filled in.
C10_Witness ==
    /\ step = 1
    /\ data.country # ""
    /\ data.desiredJob = ""


(***************************************************************************)
(*                    Properties of the contact form                       *)
(***************************************************************************)

\* C3: the step that handles a 2xx response leaves all four fields empty and
\* the success banner shown, whatever the fields held when it arrived.
C3_SuccessClearsFormAndShowsBanner ==
    [][contactRequest.pending /\ ~contactRequest'.pending =>
       \A res \in ContactResponses :
          (HandleSubmitResolvedWith(res) /\ res.ok) =>
              /\ \A f \in ContactFields : formData'[f] = ""
              /\ success' = TRUE]_vars

\* C3 witness: a 2xx response has just been handled: banner shown, its timer
\* freshly set, form empty, no request in flight.
C3_Witness ==
    /\ success
    /\ timers = {5}
    /\ shownFor = 0
    /\ \A f \in ContactFields : formData[f] = ""
    /\ ~contactRequest.pending

\* C4: the success banner is hidden only by the start of a new submission or
\* when it has been shown for exactly 5 seconds, and it is never shown longer.
C4_BannerShownExactlyFiveSeconds ==
    /\ [][success /\ ~success' =>
             \/ ~contactRequest.pending /\ contactRequest'.pending
             \/ shownFor = BannerSeconds]_vars
    /\ [](success => shownFor <= BannerSeconds)

(***************************************************************************)
(*                     Properties of the dashboard                         *)
(***************************************************************************)

\* The curated set of the backend is what the dashboard holds.
CuratedSetLoaded ==
    mountEffect = "done" /\ dashSites = OrEmpty(backendDashboard.job_sites)

\* C6: the second activation of the toggle, which leaves the all-countries
\* mode, keeps the user on the dashboard; and from the first activation until
\* the dashboard is back in curated mode the loaded curated set does not
\* change, so that the sites displayed after the second activation are the
\* curated set displayed before the first.  Whether the country is set or not.
C6_ToggleTwiceRestoresCuratedSet ==
    /\ [][showAllCountries /\ ~showAllCountries' =>
             dashLocation'.path = "/dashboard"]_vars
    /\ [][CuratedSetLoaded /\ (showAllCountries \/ toggleHandler # "idle") =>
             dashSites' = dashSites]_vars

\* The URL's country parameter says what is selected.
ParamMatchesSelection ==
    IF selectedCountry = All THEN ~searchParams.present
    ELSE searchParams.present /\ FormDecode(searchParams.raw) = selectedCountry

\* C2: every country selection, through the selector or a popular-country
\* tile, leaves the URL's country parameter equal to the selected country, or
\* absent when 'all' is selected, and nothing that happens afterwards in the
\* view breaks the agreement.
C2_UrlParamFollowsSelection ==
    /\ [][HandleCountryChange \/ PopularCountryClick => ParamMatchesSelection']_vars
    /\ [][ParamMatchesSelection => ParamMatchesSelection']_vars

\* 'a+' was selected after the view was opened without a parameter: both
\* requests are still in flight and the parameter reads a%2B.
C2_Witness ==
    /\ selectedCountry = CountryPlus
    /\ searchParams = Param(<<"a", "%", "2", "B">>)
    /\ jobSitesRequests[CountryPlus] > 0
    /\ jobSitesRequests[All] > 0

\* Two characters are the same letter, whatever their case.
SameLetter(x, y) ==
    x = y \/ {x, y} = {"a", "A"} \/ {x, y} = {"b", "B"}

ContainsIgnoringCase(field, q) ==
    \E i \in 0..(Len(field) - Len(q)) :
        \A k \in 1..Len(q) : SameLetter(field[i + k], q[k])

Matching(site) ==
    \/ ContainsIgnoringCase(site.site_name, searchQuery)
    \/ ContainsIgnoringCase(site.country, searchQuery)
    \/ ContainsIgnoringCase(site.site_url, searchQuery)

\* C5: the filtered list is exactly the matching sites of the loaded set, in
\* the order of the loaded set; for the empty query it is the loaded set.
C5_FilterKeepsExactlyTheMatches ==
    LET keep == {i \in DOMAIN sites : Matching(sites[i])}
        nth(k) == CHOOSE i \in keep : Cardinality({j \in keep : j < i}) = k - 1
    IN  /\ Len(filteredSites) = Cardinality(keep)
        /\ \A k \in DOMAIN filteredSites : filteredSites[k] = sites[nth(k)]
        /\ searchQuery = <<>> => filteredSites = sites

\* The query 'BA' keeps the second of two loaded sites, by its URL 'Ba' only.
C5_Witness ==
    /\ searchQuery = <<"B", "A">>
    /\ Len(sites) = 2
    /\ sites[2].id = 3
    /\ sites[1].id = 1
    /\ filteredSites = <<sites[2]>>

(***************************************************************************)
(*                  Requests, failures and loading flags                   *)
(***************************************************************************)

\* C11: a registration call is issued only from step 2, one call per submit
\* carrying the data on screen; never more than one call is in flight, and
\* while one is in flight the submit control is disabled.
C11_OneRegistrationFromFinalStep ==
    /\ [][registerInFlight' # registerInFlight /\ registerInFlight' > registerInFlight =>
             /\ step = total
             /\ registerInFlight' = registerInFlight + 1
             /\ registerRequest' = Request(data)]_vars
    /\ [](registerInFlight <= 1)
    /\ [](registerInFlight > 0 /\ WizardMounted => SubmitDisabled /\ step = total)

\* A registration call is in flight, issued from step 2.
C11_Witness ==
    /\ registerInFlight = 1
    /\ registerRequest.pending
    /\ step = total
    /\ isLoading

\* The message a non-2xx response provides, or the generic text.
ServerMessageOrGeneric(res) ==
    IF res.json = "body" /\ Truthy(res.message) THEN res.message ELSE FailedToSend

\* C12: a non-2xx response shows the server's message if it provides one and
\* the generic text otherwise, a thrown request shows the network-error text;
\* in both cases the fields stay as they are and the success banner stays
\* hidden; and an error banner changes only when the next submission starts.
C12_FailureShowsPersistentError ==
    /\ [][contactRequest.pending /\ ~contactRequest'.pending =>
             \A res \in ContactResponses :
                 HandleSubmitResolvedWith(res) /\ ~res.ok =>
                     /\ contactError' = ServerMessageOrGeneric(res)
                     /\ formData' = formData
                     /\ ~success']_vars
    /\ [][contactRequest.pending /\ ~contactRequest'.pending /\ HandleSubmitRejected =>
             /\ contactError' = NetworkError
             /\ formData' = formData
             /\ ~success']_vars
    /\ [][contactError # None /\ contactError' # contactError =>
             ~contactRequest.pending /\ contactRequest'.pending]_vars

\* The array a response carries: its results, else its data, else itself.
IsArray(v) == v.kind = "array"
CarriedArray(res) ==
    IF res.kind = "object" /\ IsArray(res.results) THEN res.results.items
    ELSE IF res.kind = "object" /\ IsArray(res.data) THEN res.data.items
    ELSE IF IsArray(res) THEN res.items
    ELSE <<>>

\* C13: each loader turns every response into the array it carries (results,
\* else data, else the response itself; the empty list when it carries none),
\* so the two loaders agree on every response; and the set a resolved request
\* leaves loaded is the array carried by the response that resolved it.
C13_LoadersParseEveryShapeAlike ==
    /\ [](\A res \in SitesResponses :
              /\ ParseJobSites(res) = CarriedArray(res)
              /\ ParseAllJobSites(res) = CarriedArray(res))
    /\ [][InFlight' < InFlight =>
             \/ sites' = <<>>
             \/ \E target \in RequestTargets, res \in SitesResponses :
                    /\ jobSitesRequests'[target] < jobSitesRequests[target]
                    /\ sites' = CarriedArray(res)
                    /\ JobSitesResolvedWith(target, res)]_vars

\* The country loader has loaded two sites of the selected country.
C13_Witness ==
    /\ sitesMounted /\ ~sitesLoading
    /\ InFlight = 0
    /\ selectedCountry = CountryAb
    /\ Len(sites) = 2
    /\ \A i \in DOMAIN sites : sites[i].country = CountryAb

\* The response is one of the shapes the sites view takes an array from.
CarriesArray(res) ==
    \/ IsArray(res)
    \/ res.kind = "object" /\ (IsArray(res.results) \/ IsArray(res.data))

\* C14: when the dashboard's all-countries request resolves to an array, or
\* to an object with a results or data array, the dashboard is in all-countries
\* mode and displays that array.
C14_DashboardAcceptsTheSameShapes ==
    [][toggleHandler = "awaitJobSites" /\ toggleHandler' = "idle" =>
         \A res \in JobSitesResponses :
             AllSitesResolvedWith(res) /\ CarriesArray(res) =>
                 /\ showAllCountries'
                 /\ allSites' = CarriedArray(res)]_vars

\* The sites of a list all belong to the country asked for.
AnswersTarget(list, target) ==
    target = All \/ \A i \in DOMAIN list : list[i].country = target

\* C15: a new selection adds a request to those in flight and cancels none;
\* every request that resolves replaces the loaded set by the payload of its
\* response (the empty list if it threw), whatever is selected by then.  So
\* the last response to arrive wins.
C15_LastResponseWins ==
    /\ [][selectedCountry' # selectedCountry =>
             jobSitesRequests' = Issue(jobSitesRequests, LoadSitesTarget(selectedCountry'))]_vars
    /\ [][InFlight' < InFlight =>
             /\ selectedCountry' = selectedCountry
             /\ \E target \in RequestTargets :
                    /\ jobSitesRequests' = Settle(jobSitesRequests, target)
                    /\ jobSitesRequests[target] > 0
                    /\ AnswersTarget(sites', target)]_vars

\* Every request has resolved, 'B a' is selected and the loaded set is a
\* non-empty set of sites of 'Ab'.
C15_Witness ==
    /\ sitesMounted /\ InFlight = 0 /\ ~popularRequest
    /\ selectedCountry = CountryBa
    /\ sites # <<>>
    /\ \A i \in DOMAIN sites : sites[i].country = CountryAb

\* The requests in flight, over the four views.
Outstanding ==
    registerInFlight
    + (IF contactRequest.pending THEN 1 ELSE 0)
    + (IF mountEffect \in {"awaitDashboard", "awaitPopular"} THEN 1 ELSE 0)
    + (IF toggleHandler # "idle" THEN 1 ELSE 0)
    + InFlight
    + (IF popularRequest THEN 1 ELSE 0)

\* C16: no more requests are issued than the mounts and user actions account
\* for; a step in which a request completes, with whatever outcome, leaves one
\* request fewer in flight and issues none, except that the dashboard's mount
\* goes on from its first request to its second, which the mount accounts for.
C16_NoRetries ==
    /\ [](requestsDue >= 0)
    /\ [][requestsDue' < requestsDue =>
             mountEffect = "awaitDashboard" /\ mountEffect' = "awaitPopular"]_vars
    /\ [][Outstanding' < Outstanding =>
             Outstanding' = Outstanding - 1 /\ requestsDue' = requestsDue]_vars
    /\ [][Outstanding' = Outstanding /\ mountEffect' = mountEffect =>
             requestsDue' = requestsDue]_vars

\* The wizard shows the error of a failed registration and nothing is in flight.
C16_Witness ==
    /\ route = "/apply"
    /\ error \in {GenericFailure, UnexpectedError}
    /\ Outstanding = 0
    /\ ~isLoading

\* C17: a handler whose request completes, with whatever outcome, ends with
\* its view's loading flag false; so in every view whose effects have run and
\* whose requests have all completed the flag is false and the controls that
\* depend on it are enabled.
C17_HandlersEndNotLoading ==
    /\ [][registerInFlight' < registerInFlight => ~isLoading']_vars
    /\ [][contactRequest.pending /\ ~contactRequest'.pending => ~contactLoading']_vars
    /\ [][mountEffect # "done" /\ mountEffect' = "done" => ~dashLoading']_vars
    /\ [][toggleHandler # "idle" /\ toggleHandler' = "idle" => ~dashLoading']_vars
    /\ [][InFlight' < InFlight => ~sitesLoading']_vars
    /\ [](registerInFlight = 0 => ~isLoading)
    /\ [](~contactRequest.pending => ~contactLoading /\ ~ContactSubmitDisabled)
    /\ [](mountEffect = "done" /\ toggleHandler = "idle" =>
              ~dashLoading /\ ~ToggleDisabled)
    /\ [](sitesMounted /\ InFlight = 0 => ~sitesLoading)

\* The dashboard after its mount effect ended in a thrown request.
C17_Witness ==
    /\ route = "/dashboard"
    /\ mountEffect = "done" /\ toggleHandler = "idle"
    /\ dashSites = <<>> /\ country = <<>>
    /\ backendDashboard.country # <<>>
    /\ ~dashLoading

\* C18: the mount effect issues the dashboard request first, and when that
\* request has completed, with whatever outcome, it issues the
\* popular-countries request; the popular-countries request is issued at no
\* other moment.
C18_MountFetchesDashboardThenPopular ==
    /\ [][mountEffect = "start" /\ mountEffect' # "start" =>
             mountEffect' = "awaitDashboard"]_vars
    /\ [][mountEffect # "awaitPopular" /\ mountEffect' = "awaitPopular" =>
             mountEffect = "awaitDashboard"]_vars
    /\ [][mountEffect = "awaitDashboard" /\ mountEffect' # "awaitDashboard" =>
             mountEffect' = "awaitPopular"]_vars

(***************************************************************************)
(*                      The mount of the sites view                        *)
(***************************************************************************)

\* The URL's country parameter is present and not empty.
CountryParamPresent == searchParams.present /\ FormDecode(searchParams.raw) # <<>>
ParamCountry == FormDecode(searchParams.raw)

\* The state is initialised from the parameter.
SelectedFromParam ==
    selectedCountry = IF CountryParamPresent THEN ParamCountry ELSE All

\* C19 as stated: the selection is initialised from the parameter, and the
\* mount issues requests filtered by that country, and no unfiltered request,
\* exactly when the parameter is present.
C19_Original ==
    /\ [](~sitesMounted => SelectedFromParam)
    /\ [][~sitesMounted /\ sitesMounted' =>
             /\ selectedCountry' = selectedCountry
             /\ IF CountryParamPresent
                THEN /\ jobSitesRequests'[All] = 0
                     /\ \A t \in RequestTargets \ {All} :
                            jobSitesRequests'[t] > 0 <=> t = ParamCountry
                ELSE /\ jobSitesRequests'[All] > 0
                     /\ \A t \in RequestTargets \ {All} : jobSitesRequests'[t] = 0]_vars

\* The parameter names a country: it is present, not empty and not 'all'.
ParamNamesCountry == CountryParamPresent /\ ParamCountry # All

\* C19: the selection is initialised from the parameter ('all' when it is
\* absent or empty); when the parameter names a country the mount issues one
\* request, for that country, and no unfiltered one; when the parameter is the
\* literal 'all' it issues one unfiltered request, and when it is absent or
\* empty it issues two unfiltered requests.
C19_MountLoadsWhatTheParamNames ==
    /\ [](~sitesMounted => SelectedFromParam)
    /\ [][~sitesMounted /\ sitesMounted' =>
             /\ selectedCountry' = selectedCountry
             /\ jobSitesRequests' =
                  IF ParamNamesCountry THEN Issue(NoRequests, ParamCountry)
                  ELSE IF CountryParamPresent THEN Issue(NoRequests, All)
                  ELSE Issue(Issue(NoRequests, All), All)]_vars

\* The view has just mounted on ?country=B%20a: one request, for 'B a'.
C19_Witness ==
    /\ sitesMounted /\ sitesLoading
    /\ searchParams = Param(<<"B", "%", "2", "0", "a">>)
    /\ selectedCountry = CountryBa
    /\ jobSitesRequests = Issue(NoRequests, CountryBa)
    /\ popularRequest

(***************************************************************************)
(*                    Properties of the country images                     *)
(***************************************************************************)

\* Two names are the same but for the case of their letters.
SameLetterIgnoringCase(x, y) ==
    \/ x = y
    \/ \E i \in DOMAIN UpperLetters : {x, y} = {UpperLetters[i], LowerLetters[i]}
SameNameIgnoringCase(a, b) ==
    Len(a) = Len(b) /\ \A i \in DOMAIN a : SameLetterIgnoringCase(a[i], b[i])

\* The keys of the image map a name equals, ignoring case.
MatchingKeys(name) ==
    {i \in DOMAIN countryImageMap : SameNameIgnoringCase(name, countryImageMap[i].key)}

\* C20: getCountryImage returns the mapped image for a name that equals a key
\* ignoring case, and null for the empty name and for a name that matches no
\* key; hasCountryImage is true exactly when getCountryImage is not null; and
\* every name of getAvailableCountries has an image.
C20_CountryImageLookup ==
    /\ imageCall.called =>
          /\ \A i \in MatchingKeys(imageName) :
                 imageCall.image = countryImageMap[i].value
          /\ imageName = <<>> \/ MatchingKeys(imageName) = {} =>
                 imageCall.image = Null
          /\ imageCall.has <=> imageCall.image # Null
    /\ \A i \in DOMAIN getAvailableCountries :
          hasCountryImage(getAvailableCountries[i])

(***************************************************************************)
(*               Properties of what the wizard submits                     *)
(***************************************************************************)

\* Country, job and start date of step 2 are filled in.
Step2Complete(d) ==
    /\ d.country # ""
    /\ d.desiredJob # ""
    /\ d.desiredStartDate # ""

\* C21: every registration request the wizard sends carries data that pass the
\* validation of both steps: the seven fields of step 1 non-empty with a
\* password of at least 8 characters, and country, desiredJob and
\* desiredStartDate non-empty, whatever edits, Next and Back came before.
C21_RequestsCarryValidData ==
    registerRequest.pending =>
        Step1Complete(registerRequest.body) /\ Step2Complete(registerRequest.body)

\* A request is in flight, and the form has been edited since it was sent.
C21_Witness ==
    /\ registerRequest.pending
    /\ Step1Complete(registerRequest.body)
    /\ data # registerRequest.body

\* The jobs the job RadioGroup offers for a country: its list plus 'Other'.
JobsOffered(c) ==
    IF c \in DOMAIN jobsByCountry
    THEN Range(jobsByCountry[c]) \cup {"Other"}
    ELSE {}

\* C22: desiredJob is always empty or one of the jobs offered for the selected
\* country, so a job chosen for one country is never submitted with another.
C22_JobBelongsToCountry ==
    /\ data.desiredJob = "" \/ data.desiredJob \in JobsOffered(data.country)
    /\ registerRequest.pending =>
          registerRequest.body.desiredJob \in JobsOffered(registerRequest.body.country)

\* A job of Germany's list is submitted with Germany, after Poland was selected
\* in the form again.
C22_Witness ==
    /\ registerRequest.pending
    /\ registerRequest.body.country = "Germany"
    /\ registerRequest.body.desiredJob \in Range(jobsByCountry["Germany"])
    /\ data.country = "Poland"
    /\ data.desiredJob = ""

(***************************************************************************)
(*           Properties of the sites directory's loading flag              *)
(***************************************************************************)

\* C23: in the sites view loading is true whenever a job-sites request is in
\* flight: the view never renders the populated or the empty state while a
\* job-sites request it issued has not resolved.
C23_LoadingWhileRequestInFlight ==
    sitesMounted /\ InFlight > 0 => sitesLoading

\* C25: on mount the sites view issues exactly one job-sites request: an
\* unfiltered one when the URL has no country parameter, one filtered by the
\* parameter's country when it has; no request is issued twice by one mount.
C25_MountIssuesOneJobSitesRequest ==
    [][~sitesMounted /\ sitesMounted' =>
          /\ InFlight' = 1
          /\ jobSitesRequests' =
                IF CountryParamPresent THEN Issue(NoRequests, ParamCountry)
                ELSE Issue(NoRequests, All)]_vars

\* The countries of the popular-countries response and of the loaded sites.
PopularCountryNames == {popularCountries[i].country : i \in DOMAIN popularCountries}
LoadedSiteCountries == {sites[i].country : i \in DOMAIN sites} \ {<<>>}

\* A list without duplicates.
NoDuplicates(l) == \A i, j \in DOMAIN l : l[i] = l[j] => i = j

\* C24: once the popular-countries request and the unfiltered job-sites
\* requests of the mount have resolved, the selector's country list holds every
\* country of the popular-countries response and every country of the loaded
\* sites, without duplicates, whichever response arrived first.
C24_SelectorOffersEveryCountry ==
    sitesMounted /\ ~popularRequest /\ InFlight = 0 /\ selectedCountry = All =>
        /\ PopularCountryNames \subseteq Range(allCountries)
        /\ LoadedSiteCountries \subseteq Range(allCountries)
        /\ NoDuplicates(allCountries)

(***************************************************************************)
(*               Properties of the dashboard's requests                    *)
(***************************************************************************)

\* The requests of the dashboard that are in flight: the mount effect awaits
\* one of its two requests, the toggle handler awaits its request.
MountRequestInFlight == mountEffect \in {"awaitDashboard", "awaitPopular"}
ToggleRequestInFlight == toggleHandler # "idle"

\* C26: at most one request of the dashboard is in flight at any time: loading
\* is true from mount until the mount requests complete and during every toggle
\* request, and a toggle request starts only while loading is false, so toggle
\* requests overlap neither each other nor the mount requests.
C26_OneDashboardRequestInFlight ==
    /\ [](~(MountRequestInFlight /\ ToggleRequestInFlight))
    /\ [](mountEffect # "done" \/ ToggleRequestInFlight => dashLoading)
    /\ [][~ToggleRequestInFlight /\ ToggleRequestInFlight' =>
             ~dashLoading /\ ~MountRequestInFlight /\ dashLoading']_vars

\* A toggle request is in flight after the mount effect has finished.
C26_Witness ==
    /\ toggleHandler = "awaitDashboard"
    /\ mountEffect = "done"
    /\ dashLoading

\* C27: if the all-sites request throws while toggling to 'all countries' the
\* dashboard stays in curated mode, with showAllCountries, sites, allSites and
\* country unchanged and loading false again; and the dashboard enters
\* all-countries mode only when an all-sites request has completed, the
\* displayed set then being the site list of the response, whichever response
\* it was.
C27_AllCountriesModeOnlyWithItsSites ==
    /\ [][toggleHandler = "awaitJobSites" /\ ToggleRejected =>
             /\ UNCHANGED <<showAllCountries, dashSites, allSites, country>>
             /\ ~showAllCountries'
             /\ ~dashLoading']_vars
    /\ [][~showAllCountries /\ showAllCountries' =>
             /\ toggleHandler = "awaitJobSites"
             /\ \E res \in JobSitesResponses : AllSitesResolvedWith(res)
             /\ \A res \in JobSitesResponses :
                    AllSitesResolvedWith(res) => displaySites' = CarriedArray(res)]_vars

(***************************************************************************)
(*              Properties of the contact form's submissions               *)
(***************************************************************************)

\* C28: the contact form never shows the success banner and the error banner
\* together: success = true implies error = null, after any interleaving of
\* submissions, responses and banner timers.
C28_BannersExcludeEachOther ==
    success => contactError = None

\* The success banner is up, without an error, while the timers of two
\* successful submissions are pending.
C28_Witness ==
    /\ success
    /\ contactError = None
    /\ Cardinality(timers) = 2

\* C29: at most one submission of the contact form is in flight: the submit
\* control is disabled from the start of a submission until its response or
\* error has been handled, and a submission starts only while none is in flight.
C29_OneContactSubmissionInFlight ==
    /\ [](contactInFlight <= 1)
    /\ [](contactInFlight > 0 => contactLoading)
    /\ [][contactInFlight' > contactInFlight =>
             /\ contactInFlight = 0
             /\ ~contactLoading
             /\ contactLoading']_vars
    /\ [][contactInFlight' < contactInFlight => ~contactLoading']_vars

\* A submission is in flight and the form has been edited since it was posted.
C29_Witness ==
    /\ contactInFlight = 1
    /\ contactLoading
    /\ contactRequest.pending
    /\ contactRequest.body # formData

(***************************************************************************)
(*             Properties of the sites directory's failures                *)
(***************************************************************************)

\* C30: when a job-sites request of the sites view throws, the loaded set
\* becomes empty (what was loaded before is discarded) and loading becomes
\* false, while the selected country and the URL's country parameter stay as
\* they are.
C30_FailedRequestEmptiesLoadedSet ==
    [][JobSitesRejected =>
          /\ sites' = <<>>
          /\ ~sitesLoading'
          /\ selectedCountry' = selectedCountry
          /\ searchParams' = searchParams]_vars

\* Sites of a country had been loaded (their country is in the selector's list,
\* which no popular-countries response filled), the last request has settled
\* and nothing is loaded.
C30_Witness ==
    /\ sitesMounted /\ InFlight = 0 /\ ~sitesLoading
    /\ ~popularRequest /\ popularCountries = <<>>
    /\ allCountries # <<>>
    /\ selectedCountry = All
    /\ sites = <<>>

(***************************************************************************)
(*                 Properties of the wizard's navigation                   *)
(***************************************************************************)

\* The fields in which two values of the form data differ.
ChangedFields(d, e) == {f \in DOMAIN d : d[f] # e[f]}

\* What the wizard holds besides the step and the form data.
WizardRest == <<isLoading, error, closureData, registerRequest, registerInFlight,
                localStorage, authToken, authUser, navigation>>

\* C31: Next and Back change only the step and leave every form field as it
\* is; editing a field changes only the form data, in that one field, and
\* leaves the step as it is, except that selecting a country also resets
\* desiredJob.  So what was entered at step 1 is still there after going to
\* step 2 and back.
C31_NavigationAndEditsKeepTheirFrame ==
    /\ [][step' # step => data' = data /\ UNCHANGED WizardRest]_vars
    /\ [][data' # data =>
             /\ step' = step
             /\ UNCHANGED WizardRest
             /\ \/ Cardinality(ChangedFields(data, data')) = 1
                \/ /\ ChangedFields(data, data') = {"country", "desiredJob"}
                   /\ data'.desiredJob = ""]_vars
    /\ [][WizardNextStep \/ WizardBack => step' # step /\ data' = data]_vars

\* Step 1 is shown again after step 2 was filled in, with everything entered
\* at step 1 and at step 2 still there.
C31_Witness ==
    /\ step = 1
    /\ Step1Complete(data)
    /\ Step2Complete(data)
    /\ ~isLoading

\* C32: the wizard's step is always 1 or 2: Next moves from step 1 to step 2
\* and never past it, Back moves from step 2 to step 1 and never below it.
C32_StepIsOneOrTwo ==
    /\ [](step \in {1, 2})
    /\ [][step' # step => <<step, step'>> \in {<<1, 2>>, <<2, 1>>}]_vars

\* Step 2 is shown after a failed submission, Next and Back having been taken.
C32_Witness ==
    /\ step = 2
    /\ error # None
    /\ ~isLoading
    /\ data.desiredJob = "Other"
====
